---- MODULE Spec2Model ----
(***************************************************************************)
(* Model of travelagent.py: the manual tool-calling loop                   *)
(* run_agent_with_tools, the three tool adapters as the loop sees them     *)
(* (payload or exception), and the interactive session of main.            *)
(*                                                                         *)
(* Spec      : main (seeded conversation, first call, follow-up lines).    *)
(* SpecCall  : one call of run_agent_with_tools on a given conversation    *)
(*             with max_iterations drawn from 0..MaxIter.                  *)
(* FairCall  : SpecCall with weak fairness (the single thread keeps        *)
(*             running while a step is possible).                          *)
(***************************************************************************)
EXTENDS Integers, Sequences, FiniteSets, TLC

\* ------------------------------------------------------------------ bounds
\* largest max_iterations explored (the program's default is 15)
MaxIter == 2
\* most tool requests the model puts in one assistant turn
MaxCalls == 2
\* most tool requests the model issues over one run of the program
MaxRequests == 2
\* most follow-up lines (other than quit words and empty lines) per session
MaxLines == 1

VARIABLES
    messages,        \* the conversation: list of message objects
    pc,              \* control point of main / run_agent_with_tools
    iteration,       \* local `iteration` of run_agent_with_tools
    max_iterations,  \* parameter `max_iterations`
    response,        \* local `response`: the assistant message of this turn
    idx,             \* position of the for loop in response.tool_calls
    tool_result,     \* local `tool_result` of the last adapter invocation
    user_input,      \* local `user_input` of main (stripped line)
    final_message,   \* message whose content main printed last
    invoked,         \* history: model invocations made by the current call
    entry,           \* history: the conversation when the current call began
    turn,            \* history: index in messages of this turn's assistant message
    ended,           \* history: how the current call ended
    executed,        \* history: ids of the requests handed to an adapter this turn
    issued,          \* tool requests the model has issued so far (MaxRequests)
    lines,           \* follow-up lines appended so far (MaxLines)
    tool_args,       \* arguments of the adapter invocation under study
    upstream,        \* the HTTP exchange that invocation sees
    payload          \* what that invocation gave back

vars == <<messages, pc, iteration, max_iterations, response, idx, tool_result,
          user_input, final_message, invoked, entry, turn, ended, executed,
          issued, lines, tool_args, upstream, payload>>

\* the variables of a single adapter invocation; the loop keeps none of them
adapter_vars == <<tool_args, upstream, payload>>

Min(a, b) == IF a < b THEN a ELSE b

Last(s) == s[Len(s)]

IsPrefix(s, t) == Len(s) <= Len(t) /\ SubSeq(t, 1, Len(s)) = s

\* ---------------------------------------------------------------- messages
NoMessage == [type |-> "none", content |-> <<>>, tool_calls |-> <<>>, tool_call_id |-> 0]

SystemMessage(c) == [type |-> "system", content |-> c, tool_calls |-> <<>>, tool_call_id |-> 0]

HumanMessage(c) == [type |-> "human", content |-> c, tool_calls |-> <<>>, tool_call_id |-> 0]

AIMessage(calls) == [type |-> "ai", content |-> <<"text">>, tool_calls |-> calls, tool_call_id |-> 0]

\* mutant: the result carries the identifier before the request's
ToolMessage_StaleId(c, id) ==
    [type |-> "tool", content |-> c, tool_calls |-> <<>>, tool_call_id |-> id - 1]

ToolMessage(c, id) == [type |-> "tool", content |-> c, tool_calls |-> <<>>, tool_call_id |-> id]

system_message == <<"system_message">>

travel_input == <<"travel_input">>

\* -------------------------------------------------------------- tool names
\* keys of tool_map: the names of the three @tool functions
tool_map == {"get_place_details", "get_weather_forecast", "get_air_quality"}

\* names the model may put in a request: the bound tools and one that is not bound
ModelToolNames == tool_map \cup {"get_hotel_prices"}

\* tool_calls lists of length n; the model service gives every request an
\* identifier of its own: the requests issued so far are numbered 1..base
ToolCallLists(n, base) ==
    { s \in [1..n -> [id : (base + 1)..(base + n), name : ModelToolNames]] :
        \A i \in 1..n : s[i].id = base + i }

\* ---------------------------------------------------------------- upstream
\* What one HTTP exchange can give an adapter.
\*   reachable   : requests.get / requests.post returned a response
\*   status_code : 200 or a non-2xx status
\*   body        : "not_json" (empty or non-JSON body), "no_match" (JSON with
\*                 no results / no day of the requested date / no indexes),
\*                 "partial" (first entry lacks a field), "complete"
Bodies == {"not_json", "no_match", "partial", "complete"}

Responses == [reachable : BOOLEAN, status_code : {200, 500}, body : Bodies]

\* what an adapter invocation gives the loop: a payload kind or an exception
RAISE == "raise"

SUCCESS == "success"

ERROR == "error"

get_place_details(r) ==
    IF ~r.reachable THEN RAISE
    ELSE IF r.body = "not_json" THEN RAISE
    ELSE IF r.body = "no_match" THEN ERROR
    ELSE IF r.body = "partial" THEN RAISE
    ELSE SUCCESS

get_weather_forecast(r) ==
    IF ~r.reachable THEN RAISE
    ELSE IF r.body = "not_json" THEN RAISE
    ELSE IF r.status_code # 200 THEN ERROR
    ELSE IF r.body = "partial" THEN RAISE
    ELSE IF r.body = "no_match" THEN ERROR
    ELSE SUCCESS

get_air_quality(r) ==
    IF ~r.reachable THEN RAISE
    ELSE IF r.body = "not_json" THEN RAISE
    ELSE IF r.status_code # 200 THEN ERROR
    ELSE IF r.body = "no_match" THEN ERROR
    ELSE SUCCESS

\* tool_map[tool_name].invoke(tool_args): exceptions of the function propagate
InvokeTool(name, r) ==
    CASE name = "get_place_details" -> get_place_details(r)
      [] name = "get_weather_forecast" -> get_weather_forecast(r)
      [] name = "get_air_quality" -> get_air_quality(r)

\* ------------------------------------------------------------ input lines
\* lines are sequences of characters
Whitespace == {" ", "\t"}

RECURSIVE lstrip(_)
lstrip(s) == IF s # <<>> /\ Head(s) \in Whitespace THEN lstrip(Tail(s)) ELSE s

RECURSIVE rstrip(_)
rstrip(s) ==
    IF s # <<>> /\ Last(s) \in Whitespace THEN rstrip(SubSeq(s, 1, Len(s) - 1)) ELSE s

\* mutant: only leading whitespace is removed
strip_LeftOnly(s) == lstrip(s)

strip(s) == rstrip(lstrip(s))

lower_char(c) ==
    CASE c = "Q" -> "q" [] c = "U" -> "u" [] c = "I" -> "i" [] c = "T" -> "t"
      [] c = "E" -> "e" [] c = "X" -> "x" [] c = "H" -> "h"
      [] OTHER -> c

lower(s) == [i \in 1..Len(s) |-> lower_char(s[i])]

QuitWords == {<<"q">>, <<"q", "u", "i", "t">>, <<"e", "x", "i", "t">>}

InputLines ==
    { <<"q">>, <<"Q", "U", "I", "T">>, <<" ", "E", "x", "i", "t", " ">>,
      <<>>, <<" ", "\t">>, <<"h", "i">>, <<" ", "q", "u", "i", "t", "s">> }

\* ------------------------------------------------------------------- state
TypeOK ==
    /\ pc \in {"call", "while", "for", "return", "raised", "input", "exited", "returned"}
    /\ iteration \in 0..MaxIter
    /\ max_iterations \in 0..MaxIter
    /\ idx \in 0..(MaxCalls + 1)
    /\ tool_result \in {"none", SUCCESS, ERROR, RAISE}
    /\ invoked \in 0..(MaxIter + 1)
    /\ turn \in 0..Len(messages)
    /\ ended \in {"none", "done", "exhausted", "raised"}
    /\ issued \in 0..MaxRequests
    /\ lines \in 0..MaxLines

\* no adapter invocation is under study
NoAdapter ==
    /\ tool_args = <<>>
    /\ upstream = <<>>
    /\ payload = <<>>

\* the locals of run_agent_with_tools and main before anything ran
IdleLocals ==
    /\ iteration = 0
    /\ response = NoMessage
    /\ idx = 0
    /\ tool_result = "none"
    /\ user_input = <<>>
    /\ final_message = NoMessage
    /\ invoked = 0
    /\ entry = <<>>
    /\ turn = 0
    /\ ended = "none"
    /\ executed = <<>>
    /\ issued = 0
    /\ lines = 0

InitLocals ==
    /\ pc = "call"
    /\ IdleLocals
    /\ NoAdapter

\* main up to its first call: the seeded conversation, the default budget
Init ==
    /\ messages = <<SystemMessage(system_message), HumanMessage(travel_input)>>
    /\ max_iterations \in 1..MaxIter
    /\ InitLocals

\* conversations a caller may hand to run_agent_with_tools
SeedConversations ==
    { <<SystemMessage(system_message), HumanMessage(travel_input)>>,
      <<HumanMessage(travel_input)>>,
      <<SystemMessage(system_message), HumanMessage(travel_input),
        AIMessage(<<>>), HumanMessage(<<"h", "i">>)>> }

InitCall ==
    /\ messages \in SeedConversations
    /\ max_iterations \in 0..MaxIter
    /\ InitLocals

\* ----------------------------------------------------- run_agent_with_tools
\* entry of the function: iteration = 0
\* mutant: the counter goes on from where the previous call left it
InitialIteration_Carried(previous) == previous

\* iteration = 0
InitialIteration(previous) == 0

Enter ==
    /\ pc = "call"
    /\ pc' = "while"
    /\ iteration' = InitialIteration(iteration)
    /\ invoked' = 0
    /\ entry' = messages
    /\ turn' = 0
    /\ ended' = "none"
    /\ executed' = <<>>
    /\ UNCHANGED <<messages, max_iterations, response, idx, tool_result,
                   user_input, final_message, issued, lines,
                   adapter_vars>>

\* mutant: the break is replaced by going round the loop again
AfterResponse_Continue(calls) == IF calls = <<>> THEN "while" ELSE "for"

\* where control goes after the response was appended
AfterResponse(calls) == IF calls = <<>> THEN "return" ELSE "for"

\* mutant: the new message overwrites the last one instead of following it
AppendMessage_Overwrite(msgs, m) == Append(SubSeq(msgs, 1, Len(msgs) - 1), m)

\* messages.append(x)
AppendMessage(msgs, m) == Append(msgs, m)

\* one pass of the while body up to the for loop: the model is invoked, its
\* message appended, and a message without tool calls breaks out of the loop
InvokeModel ==
    /\ pc = "while"
    /\ iteration < max_iterations
    /\ \E n \in 0..Min(MaxCalls, MaxRequests - issued) :
       \E calls \in ToolCallLists(n, issued) :
         /\ iteration' = iteration + 1
         /\ invoked' = invoked + 1
         /\ response' = AIMessage(calls)
         /\ messages' = AppendMessage(messages, AIMessage(calls))
         /\ turn' = Len(messages) + 1
         /\ issued' = issued + n
         /\ pc' = AfterResponse(calls)
         /\ idx' = IF calls = <<>> THEN 0 ELSE 1
         /\ ended' = IF AfterResponse(calls) = "return" THEN "done" ELSE ended
    /\ executed' = <<>>
    /\ UNCHANGED <<max_iterations, tool_result, user_input, final_message,
                   entry, lines,
                   adapter_vars>>

\* the while condition is false: fall through to the return statement
LoopExit ==
    /\ pc = "while"
    /\ ~(iteration < max_iterations)
    /\ pc' = "return"
    /\ ended' = "exhausted"
    /\ UNCHANGED <<messages, iteration, max_iterations, response, idx, tool_result,
                   user_input, final_message, invoked, entry, turn, executed,
                   issued, lines,
                   adapter_vars>>

\* mutant: the requests are walked from the last to the first
CurrentToolCall_Reversed(resp, i) == resp.tool_calls[Len(resp.tool_calls) - i + 1]

\* the request the for loop is at
CurrentToolCall(resp, i) == resp.tool_calls[i]

\* control point after the for body ran for request i
AfterToolCall(resp, i) == IF i = Len(resp.tool_calls) THEN "while" ELSE "for"

\* mutant: an error payload is raised by the loop instead of being appended
Propagates_OnError(result) == result \in {RAISE, ERROR}

\* whether tool_map[tool_name].invoke(...) leaves the loop by an exception: the
\* call is not wrapped in try/except, so exactly when the adapter raised
Propagates(result) == result = RAISE

\* for body, tool_name in tool_map: the adapter is invoked; its payload is
\* appended as a ToolMessage, its exception leaves the function
DispatchTool ==
    /\ pc = "for"
    /\ CurrentToolCall(response, idx).name \in tool_map
    /\ \E r \in Responses :
         LET tool_call == CurrentToolCall(response, idx)
             result == InvokeTool(tool_call.name, r)
         IN /\ tool_result' = result
            /\ executed' = Append(executed, tool_call.id)
            /\ IF Propagates(result)
               THEN /\ pc' = "raised"
                    /\ ended' = "raised"
                    /\ UNCHANGED <<messages, idx>>
               ELSE /\ messages' = AppendMessage(messages, ToolMessage(<<result>>, tool_call.id))
                    /\ idx' = idx + 1
                    /\ pc' = AfterToolCall(response, idx)
                    /\ ended' = ended
    /\ UNCHANGED <<iteration, max_iterations, response, user_input, final_message,
                   invoked, entry, turn, issued, lines,
                   adapter_vars>>

\* mutant: a request for an unknown tool ends the loop
SkipUnknownTool_Stops ==
    /\ pc = "for"
    /\ response.tool_calls[idx].name \notin tool_map
    /\ pc' = "return"
    /\ ended' = "exhausted"
    /\ UNCHANGED <<messages, iteration, max_iterations, response, idx, tool_result,
                   user_input, final_message, invoked, entry, turn, executed,
                   issued, lines,
                   adapter_vars>>

\* for body, tool_name not in tool_map: a diagnostic is printed, nothing else
SkipUnknownTool ==
    /\ pc = "for"
    /\ CurrentToolCall(response, idx).name \notin tool_map
    /\ idx' = idx + 1
    /\ pc' = AfterToolCall(response, idx)
    /\ UNCHANGED <<messages, iteration, max_iterations, response, tool_result,
                   user_input, final_message, invoked, entry, turn, ended,
                   executed, issued, lines,
                   adapter_vars>>

\* return messages, to a caller other than main
ReturnToCaller ==
    /\ pc = "return"
    /\ pc' = "returned"
    /\ UNCHANGED <<messages, iteration, max_iterations, response, idx, tool_result,
                   user_input, final_message, invoked, entry, turn, ended,
                   executed, issued, lines,
                   adapter_vars>>

\* -------------------------------------------------------------------- main
\* return messages, to main: the content of messages[-1] is printed
MainAfterCall ==
    /\ pc = "return"
    /\ final_message' = Last(messages)
    /\ pc' = "input"
    /\ UNCHANGED <<messages, iteration, max_iterations, response, idx, tool_result,
                   user_input, invoked, entry, turn, ended, executed, issued, lines,
                   adapter_vars>>

\* one pass of the interactive loop up to the call of run_agent_with_tools
ReadInput ==
    /\ pc = "input"
    /\ \E line \in InputLines :
         /\ user_input' = strip(line)
         /\ IF lower(strip(line)) \in QuitWords
            THEN pc' = "exited" /\ UNCHANGED <<messages, lines>>
            ELSE IF strip(line) = <<>>
            THEN pc' = "input" /\ UNCHANGED <<messages, lines>>
            ELSE /\ lines < MaxLines
                 /\ messages' = AppendMessage(messages, HumanMessage(strip(line)))
                 /\ lines' = lines + 1
                 /\ pc' = "call"
    /\ UNCHANGED <<iteration, max_iterations, response, idx, tool_result,
                   final_message, invoked, entry, turn, ended, executed, issued,
                   adapter_vars>>

\* ---------------------------------------------------------- specifications
Next ==
    \/ Enter
    \/ InvokeModel
    \/ LoopExit
    \/ DispatchTool
    \/ SkipUnknownTool
    \/ MainAfterCall
    \/ ReadInput

Spec == Init /\ [][Next]_vars

NextCall ==
    \/ Enter
    \/ InvokeModel
    \/ LoopExit
    \/ DispatchTool
    \/ SkipUnknownTool
    \/ ReturnToCaller

SpecCall == InitCall /\ [][NextCall]_vars

FairCall == SpecCall /\ WF_vars(NextCall)

\* ------------------------------------------------- the adapters in detail
\* One HTTP exchange as an adapter reads it:
\*   reachable   : requests.get / requests.post returned a response
\*   status_code : response.status_code
\*   json        : response.json() parses the body (FALSE: empty or non-JSON)
\*   has_list    : the JSON object has the list the adapter looks up
\*                 ("results", "forecastDays", "indexes")
\*   entries     : that list
Exchange(reachable, status_code, json, has_list, entries) ==
    [reachable |-> reachable, status_code |-> status_code, json |-> json,
     has_list |-> has_list, entries |-> entries]

\* data.get(key, []) and data.get(key): the list, or nothing when the key is absent
ListOf(resp) == IF resp.has_list THEN resp.entries ELSE <<>>

\* an exception left the adapter
Raised == [kind |-> "raise"]

\* json.dumps({"error": reason})
ErrorPayload(reason) == [kind |-> "error", error |-> reason]

\* all sequences over S of length at most n
RECURSIVE SeqsUpTo(_, _)
SeqsUpTo(S, n) ==
    IF n = 0 THEN {<<>>}
    ELSE SeqsUpTo(S, n - 1) \cup
         { Append(q, x) : q \in { t \in SeqsUpTo(S, n - 1) : Len(t) = n - 1 }, x \in S }

\* ---- get_weather_forecast
DigitChars == <<"0", "1", "2", "3", "4", "5", "6", "7", "8", "9">>

\* str(n) for n >= 0, as a sequence of characters
RECURSIVE Decimal(_)
Decimal(n) ==
    IF n < 10 THEN <<DigitChars[n + 1]>>
    ELSE Decimal(n \div 10) \o <<DigitChars[(n % 10) + 1]>>

\* format(n, "02d") for n >= 0
Pad2(n) == IF n < 10 THEN <<"0">> \o Decimal(n) ELSE Decimal(n)

\* f"{d['year']}-{d['month']:02d}-{d['day']:02d}"
FormatDate(d) == Decimal(d.year) \o <<"-">> \o Pad2(d.month) \o <<"-">> \o Pad2(d.day)

HEAVY == "heavy winter coat, thermal layers, gloves, hat"

WARM == "warm jacket and sweater"

LIGHT_JACKET == "light jacket or cardigan"

LIGHT == "t-shirt and light clothing"

WATERPROOF == ", waterproof jacket"

UMBRELLA == ", carry an umbrella"

\* mutant: the second tier takes the boundary value (avg_temp <= 10)
ClothingTier_Inclusive(max_temp, min_temp) ==
    IF max_temp + min_temp < 0 THEN HEAVY
    ELSE IF max_temp + min_temp <= 20 THEN WARM
    ELSE IF max_temp + min_temp < 40 THEN LIGHT_JACKET
    ELSE LIGHT

\* avg_temp = (max_temp + min_temp) / 2 is a true division, so avg_temp < t
\* exactly when max_temp + min_temp < 2 * t
ClothingTier(max_temp, min_temp) ==
    IF max_temp + min_temp < 2 * 0 THEN HEAVY
    ELSE IF max_temp + min_temp < 2 * 10 THEN WARM
    ELSE IF max_temp + min_temp < 2 * 20 THEN LIGHT_JACKET
    ELSE LIGHT

\* mutant: the umbrella branch is tested first, so the waterproof one is dead
PrecipAddition_UmbrellaFirst(precip_prob) ==
    IF precip_prob > 30 THEN <<UMBRELLA>>
    ELSE IF precip_prob > 50 THEN <<WATERPROOF>>
    ELSE <<>>

\* what is appended to the clothing string (the string is kept as its parts)
PrecipAddition(precip_prob) ==
    IF precip_prob > 50 THEN <<WATERPROOF>>
    ELSE IF precip_prob > 30 THEN <<UMBRELLA>>
    ELSE <<>>

UmbrellaNeeded(precip_prob) == IF precip_prob > 30 THEN "Yes" ELSE "No"

\* the result dictionary built from the matching day
Forecast(day) ==
    [kind |-> "success",
     date |-> FormatDate(day),
     max_temp_c |-> day.max_temp,
     min_temp_c |-> day.min_temp,
     precipitation_probability |-> day.precip,
     umbrella_needed |-> UmbrellaNeeded(day.precip),
     clothing_recommendation |->
         <<ClothingTier(day.max_temp, day.min_temp)>> \o PrecipAddition(day.precip)]

NoForecast(date) == ErrorPayload(<<"No forecast for", date, "Only next 4 days available.">>)

\* the for loop over the forecast days: the first day whose formatted date is
\* the requested string decides; a day without displayDate, or a matching day
\* without one of the fields read, raises KeyError
RECURSIVE ScanDays(_, _)
ScanDays(days, date) ==
    IF days = <<>> THEN NoForecast(date)
    ELSE IF ~Head(days).has_date THEN Raised
    ELSE IF FormatDate(Head(days)) = date
         THEN IF Head(days).has_fields THEN Forecast(Head(days)) ELSE Raised
    ELSE ScanDays(Tail(days), date)

get_weather_forecast_payload(resp, date) ==
    IF ~resp.reachable THEN Raised
    ELSE IF ~resp.json THEN Raised
    ELSE IF resp.status_code # 200 THEN ErrorPayload("Failed to fetch weather data")
    ELSE ScanDays(ListOf(resp), date)

\* a forecast day as the adapter reads it
ForecastDay(has_date, has_fields, year, month, day, max_temp, min_temp, precip) ==
    [has_date |-> has_date, has_fields |-> has_fields, year |-> year, month |-> month,
     day |-> day, max_temp |-> max_temp, min_temp |-> min_temp, precip |-> precip]

\* the adapter invocation under study runs to its return or its exception
AdapterDone(result) ==
    /\ payload' = result
    /\ pc' = IF result.kind = "raise" THEN "adapter_raised" ELSE "adapter_returned"
    /\ UNCHANGED <<messages, iteration, max_iterations, response, idx, tool_result,
                   user_input, final_message, invoked, entry, turn, ended,
                   executed, issued, lines, tool_args, upstream>>

CallWeatherForecast ==
    /\ pc = "get_weather_forecast"
    /\ AdapterDone(get_weather_forecast_payload(upstream, tool_args.date))

\* the state around an adapter invocation made on its own
InitAdapter(name) ==
    /\ pc = name
    /\ messages = <<>>
    /\ max_iterations = 0
    /\ IdleLocals
    /\ payload = <<>>

\* temperatures around the tier boundaries
TempValues == {-20, -1, 0, 1, 9, 10, 11, 19, 20, 21, 35}

Percents == 0..100

Feb16 == <<"2", "0", "2", "6", "-", "0", "2", "-", "1", "6">>

\* one well-formed day of the requested date, any temperatures and probability
InitForecastDay ==
    /\ InitAdapter("get_weather_forecast")
    /\ tool_args = [date |-> Feb16]
    /\ \E hi \in TempValues, lo \in TempValues, p \in Percents :
         upstream = Exchange(TRUE, 200, TRUE, TRUE,
                             <<ForecastDay(TRUE, TRUE, 2026, 2, 16, hi, lo, p)>>)

SpecForecastDay == InitForecastDay /\ [][CallWeatherForecast]_vars

\* most forecast days in a response that the scan is explored on (the request
\* asks for 4)
MaxDays == 2

Feb16Unpadded == <<"2", "0", "2", "6", "-", "2", "-", "1", "6">>

Feb15 == <<"2", "0", "2", "6", "-", "0", "2", "-", "1", "5">>

Feb17 == <<"2", "0", "2", "6", "-", "0", "2", "-", "1", "7">>

Feb21 == <<"2", "0", "2", "6", "-", "0", "2", "-", "2", "1">>

\* dates the model may ask for: inside the horizon, written without padding,
\* before the horizon, five days out
DateArgs == {Feb16, Feb17, Feb16Unpadded, Feb15, Feb21}

\* days a response may list: well-formed days of two dates and two
\* temperatures, days lacking a field other than the date, a day lacking the date
DayEntries ==
    { ForecastDay(TRUE, TRUE, 2026, 2, d, t, t - 8, 65) : d \in {16, 17}, t \in {5, 25} }
    \cup { ForecastDay(TRUE, FALSE, 2026, 2, d, 5, -3, 65) : d \in {16, 17} }
    \cup { ForecastDay(FALSE, TRUE, 2026, 2, 16, 5, -3, 65) }

\* every exchange: unreachable, non-2xx, non-JSON, without the list, any list
Exchanges(entries, n) ==
    { Exchange(a, c, j, h, l) :
        a \in BOOLEAN, c \in {200, 500}, j \in BOOLEAN, h \in BOOLEAN,
        l \in SeqsUpTo(entries, n) }

InitForecastScan ==
    /\ InitAdapter("get_weather_forecast")
    /\ \E date \in DateArgs : tool_args = [date |-> date]
    /\ upstream \in Exchanges(DayEntries, MaxDays)

SpecForecastScan == InitForecastScan /\ [][CallWeatherForecast]_vars

\* ---- get_air_quality

IndexEntry(has_aqi, aqi, has_category, category) ==
    [has_aqi |-> has_aqi, aqi |-> aqi, has_category |-> has_category, category |-> category]

\* indexes[0].get("aqi", 0)
aqi_value(index) == IF index.has_aqi THEN index.aqi ELSE 0

\* indexes[0].get("category", "Unknown")
aqi_category(index) == IF index.has_category THEN index.category ELSE "Unknown"

mask_needed(aqi) == IF aqi > 100 THEN "Yes" ELSE "No"

AirQuality(index) ==
    [kind |-> "success",
     aqi |-> aqi_value(index),
     category |-> aqi_category(index),
     mask_needed |-> mask_needed(aqi_value(index))]

get_air_quality_payload(resp) ==
    IF ~resp.reachable THEN Raised
    ELSE IF ~resp.json THEN Raised
    ELSE IF resp.status_code # 200 THEN ErrorPayload(<<"Failed to fetch air quality">>)
    ELSE IF ListOf(resp) = <<>> THEN ErrorPayload(<<"No air quality data available">>)
    ELSE AirQuality(ListOf(resp)[1])

CallAirQuality ==
    /\ pc = "get_air_quality"
    /\ AdapterDone(get_air_quality_payload(upstream))

\* most indexes in a response that the adapter is explored on
MaxIndexes == 2

AqiValues == {50, 100, 101, 150}

\* indexes a response may list: with both fields, without aqi, without category
IndexEntries ==
    { IndexEntry(TRUE, a, TRUE, c) : a \in AqiValues, c \in {"Good", "Unhealthy"} }
    \cup { IndexEntry(FALSE, 150, TRUE, "Unhealthy"), IndexEntry(TRUE, 150, FALSE, "Unhealthy") }

Paris == [latitude |-> 48, longitude |-> 2]

InitAirQuality ==
    /\ InitAdapter("get_air_quality")
    /\ tool_args = Paris
    /\ upstream \in Exchanges(IndexEntries, MaxIndexes)

SpecAirQuality == InitAirQuality /\ [][CallAirQuality]_vars

\* ---- get_place_details

\* one entry of "results"; missing names the field the entry lacks, if any
PlaceEntry(name, address, lat, lng, missing) ==
    [name |-> name, formatted_address |-> address, lat |-> lat, lng |-> lng,
     missing |-> missing]

\* f"{place_name}, {city}"
Query(args) == <<args.place_name, ", ", args.city>>

Place(place) ==
    [kind |-> "success",
     name |-> place.name,
     address |-> place.formatted_address,
     latitude |-> place.lat,
     longitude |-> place.lng]

\* the status code is never looked at
get_place_details_payload(resp, args) ==
    IF ~resp.reachable THEN Raised
    ELSE IF ~resp.json THEN Raised
    ELSE IF ListOf(resp) = <<>>
         THEN ErrorPayload(<<"No results found for", Query(args)>>)
    ELSE IF ListOf(resp)[1].missing # "none" THEN Raised
    ELSE Place(ListOf(resp)[1])

CallPlaceDetails ==
    /\ pc = "get_place_details"
    /\ AdapterDone(get_place_details_payload(upstream, tool_args))

\* most results in a response that the adapter is explored on
MaxResults == 2

EiffelTower == PlaceEntry("Eiffel Tower", "Champ de Mars, 5 Av. Anatole France, 75007 Paris", 48, 2, "none")

Louvre == PlaceEntry("Louvre Museum", "75001 Paris", 49, 3, "none")

\* results a response may list: complete ones, and ones lacking a field
PlaceEntries ==
    { EiffelTower, Louvre }
    \cup { [EiffelTower EXCEPT !.missing = f] : f \in {"name", "formatted_address", "geometry"} }

InitPlaceDetails ==
    /\ InitAdapter("get_place_details")
    /\ tool_args = [place_name |-> "Eiffel Tower", city |-> "Paris"]
    /\ upstream \in Exchanges(PlaceEntries, MaxResults)

SpecPlaceDetails == InitPlaceDetails /\ [][CallPlaceDetails]_vars

\* ------------------------------------------------------------------ claims
IsTool(m) == m.type = "tool"

IsRegistered(c) == c.name \in tool_map

Ids(calls) == [i \in 1..Len(calls) |-> calls[i].id]

\* the tool-result messages appended since this turn's assistant message
TurnResults == SelectSeq(SubSeq(messages, turn + 1, Len(messages)), IsTool)

TurnResultIds == [i \in 1..Len(TurnResults) |-> TurnResults[i].tool_call_id]

\* the assistant messages appended by the current call
CallTurns == { i \in (Len(entry) + 1)..Len(messages) : messages[i].type = "ai" }

\* a turn with tool requests has been fully handled and the loop is about to
\* test its condition again (the point before the next model invocation)
TurnHandled == pc = "while" /\ turn > 0

\* C1: every request id issued in one assistant turn has exactly one
\* tool-result message with that tool_call_id before the next model invocation.
C1_EveryRequestAnswered ==
    TurnHandled =>
        \A i \in 1..Len(response.tool_calls) :
            Cardinality({ j \in (turn + 1)..Len(messages) :
                            /\ messages[j].type = "tool"
                            /\ messages[j].tool_call_id = response.tool_calls[i].id }) = 1

\* C2: once an iteration is over (the for loop was left, normally or not), the
\* number of tool-result messages it appended equals the number of requests of
\* its assistant message whose name is a key of tool_map.
C2_ResultsEqualRegistered ==
    (turn > 0 /\ pc \in {"while", "return", "returned", "raised"}) =>
        Len(TurnResults) = Len(SelectSeq(response.tool_calls, IsRegistered))

\* C3: a call makes at most max_iterations model invocations and can only stop
\* by returning; with max_iterations = 0 it returns with no invocation and the
\* conversation it was given.
C3_ReturnsWithinBudget ==
    /\ invoked <= max_iterations
    /\ pc = "returned" \/ ENABLED NextCall
    /\ (pc = "returned" /\ max_iterations = 0) => (invoked = 0 /\ messages = entry)

\* C4: every step of run_agent_with_tools and of main leaves the messages it
\* found as an unchanged prefix of the conversation, and a step that invokes the
\* model makes the conversation at least one message longer.
C4_AppendOnly ==
    [][ /\ IsPrefix(messages, messages')
        /\ invoked' = invoked + 1 => Len(messages') >= Len(messages) + 1 ]_vars

C4_Witness ==
    /\ pc = "input"
    /\ lines = 1
    /\ invoked >= 1
    /\ \E i \in 1..Len(messages) : messages[i].type = "tool"

\* C5: the call is Done at the first assistant message without tool requests:
\* that message is appended and is the last one, no tool was dispatched for it,
\* the model is not invoked again and the function returns.
C5_DoneAtFirstFinalAnswer ==
    /\ [](pc # "call" =>
            \A i \in CallTurns :
                messages[i].tool_calls = <<>> =>
                    /\ i = Len(messages)
                    /\ ended = "done"
                    /\ pc \in {"return", "returned"}
                    /\ executed = <<>>)
    /\ [][ /\ (invoked' = invoked + 1 /\ Last(messages').tool_calls = <<>>) =>
                (pc' = "return" /\ ended' = "done" /\ Last(messages') = response')
           /\ ended = "done" =>
                (invoked' = invoked /\ messages' = messages /\ executed' = executed) ]_vars

C5_Witness ==
    /\ pc = "returned"
    /\ ended = "done"
    /\ invoked = 2
    /\ Last(messages) = AIMessage(<<>>)

\* C6: when the model asked for tools on each of max_iterations >= 1 turns, the
\* call ends by a normal return with the conversation it was given followed by
\* everything appended, the results of the last turn included; and a call that
\* returned ended in Done exactly when its last message is an assistant message
\* without tool requests.
C6_ExhaustionReturnsNormally ==
    /\ ( /\ max_iterations >= 1
         /\ invoked = max_iterations
         /\ \A i \in CallTurns : messages[i].tool_calls # <<>>
         /\ pc \notin {"for", "while"} )
       => /\ pc \in {"return", "returned"}
          /\ ended = "exhausted"
          /\ IsPrefix(entry, messages)
          /\ Len(TurnResults) = Len(SelectSeq(response.tool_calls, IsRegistered))
    /\ (max_iterations >= 1 /\ pc \in {"return", "returned"})
       => (ended = "done" <=>
             (Last(messages).type = "ai" /\ Last(messages).tool_calls = <<>>))

\* C7: no adapter outcome leaves the loop as an exception: the call never ends
\* by a propagated exception.
C7_NoExceptionEscapes == pc # "raised" /\ tool_result # RAISE

\* C8: within one turn the requests are handed to the adapters in the order the
\* model emitted them, and the tool-result messages of the turn are those of the
\* registered requests handled so far, in that order, each with its own id.
C8_OrderPreserved ==
    (turn > 0 /\ pc # "call") =>
        /\ TurnResultIds =
             Ids(SelectSeq(SubSeq(response.tool_calls, 1, idx - 1), IsRegistered))
        /\ executed =
             Ids(SelectSeq(SubSeq(response.tool_calls, 1,
                                  IF pc = "raised" THEN idx ELSE idx - 1), IsRegistered))

C8_Witness ==
    /\ pc = "while"
    /\ Len(response.tool_calls) = 2
    /\ response.tool_calls[1].name # response.tool_calls[2].name
    /\ TurnResultIds = Ids(response.tool_calls)

\* C9: the for body on a request whose name is not in tool_map appends no
\* message and invokes no adapter; control goes on to the next request of the
\* turn, or after the last one back to the loop test, and the call is not ended.
C9_UnknownSkipped ==
    [][ (pc = "for" /\ response.tool_calls[idx].name \notin tool_map) =>
            /\ messages' = messages
            /\ executed' = executed
            /\ tool_result' = tool_result
            /\ iteration' = iteration
            /\ invoked' = invoked
            /\ ended' = ended
            /\ idx' = idx + 1
            /\ pc' = IF idx < Len(response.tool_calls) THEN "for" ELSE "while" ]_vars

C9_Witness ==
    /\ invoked = 2
    /\ Len(messages) >= Len(entry) + 3
    /\ Len(messages[Len(entry) + 1].tool_calls) = 2
    /\ messages[Len(entry) + 1].tool_calls[1].name \notin tool_map
    /\ messages[Len(entry) + 2] =
         ToolMessage(<<SUCCESS>>, messages[Len(entry) + 1].tool_calls[2].id)
    /\ messages[Len(entry) + 3].type = "ai"

\* C10: an adapter invocation that yields a payload is handled the same way
\* whether the payload is a success or an error: the payload is appended as the
\* tool-result message of its request, the for loop goes on to the next request
\* or back to the loop test, and the iteration counter is left alone.
C10_ErrorLikeSuccess ==
    [][ (pc = "for" /\ executed' # executed /\ tool_result' \in {SUCCESS, ERROR}) =>
            /\ messages' = Append(messages,
                                  ToolMessage(<<tool_result'>>, response.tool_calls[idx].id))
            /\ idx' = idx + 1
            /\ iteration' = iteration
            /\ invoked' = invoked
            /\ ended' = ended
            /\ pc' = IF idx < Len(response.tool_calls) THEN "for" ELSE "while" ]_vars

C10_Witness ==
    /\ invoked = 2
    /\ Len(messages) >= Len(entry) + 3
    /\ messages[Len(entry) + 2].type = "tool"
    /\ messages[Len(entry) + 2].content = <<ERROR>>
    /\ messages[Len(entry) + 3].type = "ai"

\* twice the average temperature of the day the payload was built from
TwiceAvg == upstream.entries[1].max_temp + upstream.entries[1].min_temp

ClothingBase == payload.clothing_recommendation[1]

\* C11: the clothing tier depends on avg = (max + min) / 2 alone: below 0 heavy
\* winter gear, from 0 below 10 warm jacket, from 10 below 20 light jacket or
\* cardigan, from 20 light clothing; 0, 10 and 20 fall in the warmer tier.
C11_TierByAverage ==
    pc = "adapter_returned" =>
        /\ payload.kind = "success"
        /\ ClothingBase = HEAVY <=> TwiceAvg < 0
        /\ ClothingBase = WARM <=> (0 <= TwiceAvg /\ TwiceAvg < 20)
        /\ ClothingBase = LIGHT_JACKET <=> (20 <= TwiceAvg /\ TwiceAvg < 40)
        /\ ClothingBase = LIGHT <=> 40 <= TwiceAvg
        /\ Cardinality({ t \in {HEAVY, WARM, LIGHT_JACKET, LIGHT} : ClothingBase = t }) = 1

C11_Witness ==
    /\ pc = "adapter_returned"
    /\ TwiceAvg = 20
    /\ upstream.entries[1].max_temp # upstream.entries[1].min_temp
    /\ ClothingBase = LIGHT_JACKET

InClothing(part) ==
    \E i \in 1..Len(payload.clothing_recommendation) :
        payload.clothing_recommendation[i] = part

\* C12: for every probability p in 0..100 the clothing string has the
\* waterproof-jacket addition iff p > 50, the umbrella addition iff
\* 30 < p <= 50 and neither iff p <= 30; umbrella_needed is "Yes" iff p > 30,
\* that is exactly when one of the two additions is present.
C12_PrecipAdditions ==
    pc = "adapter_returned" =>
        LET p == upstream.entries[1].precip IN
        /\ payload.kind = "success"
        /\ InClothing(WATERPROOF) <=> p > 50
        /\ InClothing(UMBRELLA) <=> (30 < p /\ p <= 50)
        /\ Len(payload.clothing_recommendation) = 1 <=> p <= 30
        /\ Len(payload.clothing_recommendation) \in {1, 2}
        /\ payload.umbrella_needed = "Yes" <=> p > 30
        /\ payload.umbrella_needed \in {"Yes", "No"}
        /\ payload.umbrella_needed = "Yes" <=> (InClothing(WATERPROOF) \/ InClothing(UMBRELLA))

C12_Witness ==
    /\ pc = "adapter_returned"
    /\ upstream.entries[1].precip = 65
    /\ payload.umbrella_needed = "Yes"
    /\ InClothing(WATERPROOF)

AdapterOver == pc \in {"adapter_returned", "adapter_raised"}

\* the call reached the service and got a 2xx answer with a JSON body
UpstreamOk == upstream.reachable /\ upstream.status_code = 200 /\ upstream.json

\* positions of the days of the returned forecast that format to the requested date
MatchingDays ==
    IF upstream.reachable /\ upstream.json
    THEN { i \in 1..Len(ListOf(upstream)) :
             /\ ListOf(upstream)[i].has_date
             /\ FormatDate(ListOf(upstream)[i]) = tool_args.date }
    ELSE {}

FirstMatchingDay ==
    ListOf(upstream)[CHOOSE i \in MatchingDays : \A j \in MatchingDays : i <= j]

\* C13: the adapter returns a success payload iff the upstream call succeeded
\* and some returned day formats to exactly the requested date; the payload is
\* built from the first such day and carries the requested date; when the call
\* succeeded and no day matches, the no-forecast error payload is returned; in
\* no case is anything but a success or an error payload given back.
C13_SuccessIffDateMatches ==
    AdapterOver =>
        /\ payload.kind \in {"success", "error"}
        /\ payload.kind = "success" <=> (UpstreamOk /\ MatchingDays # {})
        /\ payload.kind = "success" =>
             /\ payload.date = tool_args.date
             /\ payload.max_temp_c = FirstMatchingDay.max_temp
             /\ payload.min_temp_c = FirstMatchingDay.min_temp
        /\ (UpstreamOk /\ MatchingDays = {}) => payload = NoForecast(tool_args.date)

\* the indexes of the response, none when there is no JSON body
ReturnedList == IF upstream.reachable /\ upstream.json THEN ListOf(upstream) ELSE <<>>

\* C14: when the upstream call succeeded and lists an index, the adapter
\* returns aqi and category of the first index and mask_needed "Yes" exactly
\* when that aqi is above 100; when the call failed or the index list is
\* missing or empty it returns an error payload without aqi, category or
\* mask_needed.
C14_MaskAbove100 ==
    AdapterOver =>
        IF UpstreamOk /\ ReturnedList # <<>>
        THEN /\ payload.kind = "success"
             /\ payload.aqi = aqi_value(ReturnedList[1])
             /\ payload.category = aqi_category(ReturnedList[1])
             /\ payload.mask_needed = "Yes" <=> payload.aqi > 100
             /\ payload.mask_needed \in {"Yes", "No"}
        ELSE /\ payload.kind = "error"
             /\ DOMAIN payload \cap {"aqi", "category", "mask_needed"} = {}

PlaceKeys == {"name", "address", "latitude", "longitude"}

\* C15: the place adapter has exactly two output shapes. When the response
\* carries a non-empty result list it returns exactly the keys name, address,
\* latitude and longitude, taken from the first result, and no error key; when
\* the result list is missing or empty it returns an error payload, and it
\* never raises.
C15_TwoShapes ==
    AdapterOver =>
        /\ pc # "adapter_raised"
        /\ IF ReturnedList # <<>>
           THEN /\ DOMAIN payload = PlaceKeys \cup {"kind"}
                /\ payload.kind = "success"
                /\ payload.name = ReturnedList[1].name
                /\ payload.address = ReturnedList[1].formatted_address
                /\ payload.latitude = ReturnedList[1].lat
                /\ payload.longitude = ReturnedList[1].lng
           ELSE /\ DOMAIN payload = {"kind", "error"}
                /\ payload.kind = "error"

\* the line without its leading and trailing whitespace
Trimmed(line) ==
    LET inked == { k \in 1..Len(line) : line[k] \notin {" ", "\t"} }
    IN  IF inked = {} THEN <<>>
        ELSE SubSeq(line, CHOOSE i \in inked : \A k \in inked : i <= k,
                          CHOOSE j \in inked : \A k \in inked : k <= j)

UpperLower ==
    { <<"Q", "q">>, <<"U", "u">>, <<"I", "i">>, <<"T", "t">>, <<"E", "e">>, <<"X", "x">> }

SameIgnoringCase(s, word) ==
    /\ Len(s) = Len(word)
    /\ \A k \in 1..Len(s) : s[k] = word[k] \/ <<s[k], word[k]>> \in UpperLower

IsQuit(s) ==
    \E word \in {<<"q">>, <<"q", "u", "i", "t">>, <<"e", "x", "i", "t">>} :
        SameIgnoringCase(s, word)

\* C16: a pass of the interactive loop ends the session exactly when the line
\* read, trimmed, is q, quit or exit in any letter case, and then nothing is
\* invoked; an empty line leaves the conversation unchanged and invokes
\* nothing; every other line appends exactly one user message (the trimmed
\* line) and the tool-calling loop is then entered on that conversation.
C16_QuitWordsEndSession ==
    [][ /\ pc = "input" =>
             \E line \in InputLines :
                 /\ user_input' = Trimmed(line)
                 /\ IF IsQuit(Trimmed(line))
                    THEN pc' = "exited" /\ messages' = messages /\ invoked' = invoked
                    ELSE IF Trimmed(line) = <<>>
                    THEN pc' = "input" /\ messages' = messages /\ invoked' = invoked
                    ELSE /\ messages' = Append(messages, HumanMessage(Trimmed(line)))
                         /\ pc' = "call"
        /\ (pc = "call" /\ lines > 0) =>
             /\ pc' = "while"
             /\ iteration' = 0
             /\ messages' = messages
        /\ pc # "exited" ]_vars

\* the session was ended by the line " Exit " after a follow-up was answered
C16_Witness ==
    /\ pc = "exited"
    /\ user_input = <<"E", "x", "i", "t">>
    /\ \E k \in 1..Len(messages) : messages[k] = HumanMessage(<<"h", "i">>)

\* C18: the message whose content main presents after a call of
\* run_agent_with_tools is always an assistant message without tool requests,
\* never a tool-result message or an assistant message that requests tools.
C18_PresentedIsFinalAnswer ==
    final_message # NoMessage =>
        /\ final_message.type = "ai"
        /\ final_message.tool_calls = <<>>

\* C19: the iteration budget is per call. Every call of run_agent_with_tools
\* starts its counter at 0 on the conversation as the session left it, every
\* step of the session keeps the earlier messages in order, the counter equals
\* the number of model invocations made for the current user line and never
\* exceeds max_iterations, and a call ends exhausted only after max_iterations
\* invocations of its own, whatever earlier calls consumed.
C19_BudgetPerCall ==
    [][ /\ pc = "call" => (iteration' = 0 /\ messages' = messages /\ entry' = messages)
        /\ IsPrefix(messages, messages')
        /\ iteration' = invoked'
        /\ invoked' <= max_iterations
        /\ ended' = "exhausted" => invoked' = max_iterations ]_vars

\* a follow-up line was answered with the full budget after the first call had
\* ended exhausted
C19_Witness ==
    /\ lines = 1
    /\ final_message.type = "tool"
    /\ pc = "return"
    /\ ended = "exhausted"
    /\ invoked = max_iterations
    /\ \E k \in 1..Len(entry) : entry[k] = final_message

\* position of the nearest assistant message before position k, 0 if none
NearestAssistant(k) ==
    LET before == { a \in 1..(k - 1) : messages[a].type = "ai" }
    IN  IF before = {} THEN 0 ELSE CHOOSE a \in before : \A b \in before : b <= a

\* C20: in every reachable conversation each tool-result message has an
\* assistant message before it with only tool-result messages in between, and
\* its tool_call_id is the identifier of a request of that assistant message
\* whose name is registered; it is not the identifier of a request of an
\* earlier turn, nor one that was never issued.
C20_ResultsLinkedToNearestTurn ==
    \A k \in 1..Len(messages) :
        IsTool(messages[k]) =>
            /\ NearestAssistant(k) # 0
            /\ \A j \in (NearestAssistant(k) + 1)..(k - 1) : IsTool(messages[j])
            /\ \E c \in 1..Len(messages[NearestAssistant(k)].tool_calls) :
                 /\ messages[NearestAssistant(k)].tool_calls[c].id = messages[k].tool_call_id
                 /\ IsRegistered(messages[NearestAssistant(k)].tool_calls[c])
            /\ messages[k].tool_call_id \in 1..issued
            /\ \A b \in 1..(NearestAssistant(k) - 1) :
                 messages[b].type = "ai" =>
                     \A c \in 1..Len(messages[b].tool_calls) :
                         messages[b].tool_calls[c].id # messages[k].tool_call_id

\* results of two different turns are in the conversation
C20_Witness ==
    \E k1, k2 \in 1..Len(messages) :
        /\ k1 < k2
        /\ IsTool(messages[k1])
        /\ IsTool(messages[k2])
        /\ NearestAssistant(k1) # NearestAssistant(k2)

====
